---- MODULE Spec2Model ----
(***************************************************************************)
(* El Paso municipal code assistant: the retrieval-and-answer turn of      *)
(* MunicipalCodeAssistant.ask_question and the terminal loop of            *)
(* TUIInterface.run that drives it.                                        *)
(*                                                                         *)
(* Texts (questions, search queries, answers, section bodies) are          *)
(* sequences of words; a section identifier "20.16.030" of the metadata is *)
(* the tuple <<20, 16, 30>>, and an absent identifier is <<>>.  The vector *)
(* index, the structured retriever and the language model are external:    *)
(* the index ranks by word overlap, and the outcome of every external call *)
(* (its result or its failure) is chosen freely the first time the call is *)
(* made with given arguments and remembered afterwards, which is the       *)
(* "unchanged index, deterministic model" the specification speaks of.     *)
(***************************************************************************)
EXTENDS Integers, Sequences, FiniteSets, TLC

\* ------------------------------------------------------------------ bounds
\* Turns (questions asked) in one terminal session.
MaxTurns == 2
\* Distinct similarity_search calls that raise in one session.
MaxDown == 1
\* Batches of documents an ingestion script has to add.
MaxBatches == 3
\* Documents the refinement round adds, in the turns started at the second
\* synthesis.
MaxNewDocs == 3
\* Pages of the PDF given to get_ocr_text.
MaxPages == 4
\* CPU cores get_ocr_text finds (multiprocessing.cpu_count()).
MaxCores == 3
\* Calls of get_ocr_text that are followed, one after the other.
MaxOcrCalls == 3
\* Threads of the upload pool of load_ocr_to_db.py that run at a time
\* (MAX_WORKERS, scaled to the batch counts checked).
MaxWorkers == 2
\* The largest k smart_search_code is given on its own.
MaxK == 12
\* Sections of the larger index worded like the fence search variants.
MaxVariantDocs == 4
\* Sections of the larger index worded like the user's question.
MaxQuestionDocs == 9
\* Distinct questions asked in one session (a question may be asked again).
MaxQuestions == 1
\* Words of a question given to smart_search_code on its own.
MaxQuestionWords == 4

\* None, where a string may stand.
NULL == "None"
\* None, where an answer text may stand.
NoAnswer == <<>>

\* ------------------------------------------------------------------- state
VARIABLES
    pc,               \* where TUIInterface.run and ask_question stand
    api_key,          \* GOOGLE_API_KEY is set in the environment
    index,            \* the documents of the persisted vector index
    assistant,        \* the fields of the MunicipalCodeAssistant object
    turns,            \* questions read so far
    question,         \* the question of the turn
    search_queries,   \* smart_search_code: the variants passed to batch_search
    seen_content,     \* batch_search: its seen_content when it last returned
    retrieved_docs,   \* ask_question: retrieved_docs
    context,          \* ask_question: the context last handed to summary_chain
    answer,           \* ask_question: the first answer
    additional_terms, \* ask_question: additional_terms
    new_docs,         \* ask_question: new_docs
    result,           \* what ask_question returned to the terminal loop
    screen,           \* what the terminal loop rendered for the turn
    batch_calls,      \* batch_search calls of the turn
    synth_calls,      \* summary_chain.invoke calls of the turn
    synth_failed,     \* a summary_chain.invoke call of the turn raised
    store_down,       \* similarity_search calls known to raise
    store_up,         \* similarity_search calls known to return
    retriever_memo,   \* question -> what retriever.invoke did for it
    llm_memo,         \* <<question, context>> -> what summary_chain.invoke did
    asked,            \* the distinct questions read so far
    documents_of,     \* question -> the 'documents' of its first finished turn
    ingest,           \* an ingestion script's run: its batches and the index it fills
    search_k          \* smart_search_code: its parameter k

vars == <<pc, api_key, index, assistant, turns, question, search_queries,
          seen_content, retrieved_docs, context, answer, additional_terms,
          new_docs, result, screen, batch_calls, synth_calls, synth_failed,
          store_down, store_up, retriever_memo, llm_memo, asked,
          documents_of, ingest, search_k>>

\* -------------------------------------------------------------------- text
Min(a, b) == IF a < b THEN a ELSE b
Max(a, b) == IF a > b THEN a ELSE b

\* str.lower() on one word.
Lower(w) ==
    CASE w = "Fence" -> "fence"
      [] w = "Additional" -> "additional"
      [] w = "Section" -> "section"
      [] w = "QUIT" -> "quit"
      [] OTHER -> w

\* str.lower() on a text.
LowerText(t) == [i \in 1..Len(t) |-> Lower(t[i])]

\* set(text.split())
Words(t) == {t[i] : i \in 1..Len(t)}

\* The pairs <<kw, w>> of the vocabulary where kw is a proper substring of w.
SubstringPairs == {<<"pet", "carpet">>, <<"pee", "speed">>, <<"fence", "fences">>}

\* kw in w, for two single words.
WordContains(w, kw) == w = kw \/ <<kw, w>> \in SubstringPairs

\* phrase in text (Python's substring test), the phrase a sequence of words:
\* a one-word phrase may lie inside a longer word, the words of a longer phrase
\* are matched one to one.
ContainsPhrase(text, p) ==
    \E i \in 1..(Len(text) - Len(p) + 1) :
        IF Len(p) = 1
        THEN WordContains(text[i], p[1])
        ELSE \A j \in 1..Len(p) : text[i + j - 1] = p[j]

\* any(word in text for word in words)
AnyIn(text, phrases) == \E p \in phrases : ContainsPhrase(text, p)

\* The element of a one-element set. Only({e : v \in {value}}) is e with the
\* local variable v assigned value: assigned once, then read.
Only(S) == CHOOSE x \in S : TRUE

\* s[:n]
Truncate(s, n) == Only({SubSeq(seq, 1, Min(Len(seq), n)) : seq \in {s}})

\* The elements of a sequence.
Range(s) == {s[i] : i \in 1..Len(s)}

\* One step of the sort: pair <<key, element>> goes behind every pair whose key
\* is not smaller, so equal keys keep the order in which they came.
InsertByKey(sorted, pair) ==
    LET ahead == Cardinality({j \in 1..Len(sorted) : sorted[j][1] >= pair[1]})
    IN  SubSeq(sorted, 1, ahead) \o <<pair>> \o SubSeq(sorted, ahead + 1, Len(sorted))

RECURSIVE SortPairs(_, _, _)
SortPairs(pairs, sorted, i) ==
    IF i > Len(pairs) THEN sorted
    ELSE Only({SortPairs(pairs, next, i + 1) :
                  next \in {InsertByKey(sorted, pairs[i])}})

\* A sort that is not stable: of equal keys the one that came later goes first.
StableSortDescTiesReversed(keyed) ==
    Only({Only({[p \in 1..Len(sorted) |-> sorted[p][2]] \o <<>> :
                   sorted \in {SortPairs(pairs, <<>>, 1)}}) :
             pairs \in {[i \in 1..Len(keyed) |-> keyed[Len(keyed) + 1 - i]] \o <<>>}})

\* list.sort(key=..., reverse=True) on the pairs <<key(element), element>>:
\* stable, equal keys keep their order.
StableSortDesc(keyed) ==
    Only({Only({[p \in 1..Len(sorted) |-> sorted[p][2]] \o <<>> :
                   sorted \in {SortPairs(pairs, <<>>, 1)}}) :
             pairs \in {keyed \o <<>>}})

\* --------------------------------------------------------------- documents
NoSection == <<>>

\* A section document: metadata 'section', page_content[:100] (head),
\* page_content as words (text) and len(page_content) (chars).
Doc(section, head, text, chars) ==
    [section |-> section, head |-> head, text |-> text, chars |-> chars]

DocB1 == Doc(<<8, 4, 10>>, "hB1",
             <<"public", "urination", "prohibited", "toilet">>, 400)
DocB2 == Doc(<<9, 4, 20>>, "hB2",
             <<"public", "toilet", "sanitation", "dog">>, 1500)
DocF1 == Doc(<<20, 16, 30>>, "hF1",
             <<"fence", "height", "shall", "not", "exceed", "six", "feet">>, 400)
DocF2 == Doc(<<20, 16, 30>>, "hF2",
             <<"20.16.030", "fence", "screening", "wall", "residential">>, 400)
DocX  == Doc(NoSection, "hF1",
             <<"fence", "height", "zoning", "permit", "required">>, 400)

\* The sections of a larger index: those worded like the fence search variants
\* and those worded like a user's question.
VariantDoc(i) == Doc(<<31, i, 10>>, "hV" \o ToString(i),
                     <<"residential", "fence">>, 400)
QuestionDoc(i) == Doc(<<32, i, 10>>, "hQ" \o ToString(i),
                      <<"how", "tall", "can", "my">>, 400)
LargeOrder == [i \in 1..MaxVariantDocs |-> VariantDoc(i)]
                 \o [i \in 1..MaxQuestionDocs |-> QuestionDoc(i)]
LargeIndex == Range(LargeOrder)

\* The documents an index may hold, in the order the index breaks ties.
DocOrder == <<DocB1, DocB2, DocF1, DocF2, DocX>> \o LargeOrder
Universe == {DocB1, DocB2, DocF1, DocF2, DocX}

\* The index contents a session may start from.
Indexes == { {}, {DocF1, DocF2}, {DocB1, DocB2, DocF1, DocF2}, Universe }

\* doc.metadata.get('section')
SectionOf(doc) == doc.section

\* hash(doc.page_content[:100]): equal heads hash equally.
ContentHash(doc) == doc.head

\* The fingerprints of a list of documents.
Heads(docs) == {ContentHash(docs[i]) : i \in 1..Len(docs)}

\* ------------------------------------------------------------ vector index
\* The index's similarity of a query and a document: the words they share.
Similarity(query, doc) ==
    Cardinality(Words(LowerText(query)) \cap Words(LowerText(doc.text)))

\* vectorstore.similarity_search(query, k): the k nearest documents of the
\* index, most similar first, whether or not they share anything with the query.
SimilaritySearch(store, query, k) ==
    Only({Truncate(StableSortDesc([i \in 1..Len(held) |->
                       <<Similarity(query, held[i]), held[i]>>]), k) :
             held \in {SelectSeq(DocOrder, LAMBDA d : d \in store)}})

\* ------------------------------------------------- MunicipalCodeAssistant
\* The keyword groups of smart_search_code.
BathroomWords == {<<"shit">>, <<"defecate">>, <<"urinate">>, <<"pee">>,
                  <<"bathroom">>, <<"toilet">>, <<"public", "restroom">>}
FenceWords    == {<<"fence">>, <<"wall">>, <<"height">>}
AnimalWords   == {<<"animal">>, <<"tiger">>, <<"pet">>, <<"dog">>}
BusinessWords == {<<"business">>, <<"commercial">>, <<"store">>}

BathroomQueries == << <<"public", "urination", "defecation", "prohibited">>,
                      <<"indecent", "conduct", "public", "decency">>,
                      <<"disorderly", "conduct", "public", "behavior">>,
                      <<"public", "health", "sanitation", "violations">>,
                      <<"nuisance", "public", "place", "bathroom">> >>
FenceQueries    == << <<"residential", "fence", "height", "20.16.030">>,
                      <<"fence", "screening", "wall", "residential">> >>
AnimalQueries   == << <<"animal", "control", "dangerous", "animals">>,
                      <<"exotic", "animal", "prohibition">> >>
BusinessQueries == << <<"business", "license", "commercial">>,
                      <<"zoning", "commercial", "activity">> >>

\* if any(word in question_lower for word in group): search_queries.extend(more)
ExtendIf(queries, question_lower, group, more) ==
    IF AnyIn(question_lower, group) THEN queries \o more ELSE queries

\* The cap on the search variants of one question.
MaxSearchQueries == 6

\* search_queries[:6], uncapped: what the code would pass without the limit.
LimitQueriesUncapped(queries) == queries

\* search_queries = search_queries[:6]
LimitQueries(queries) == Truncate(queries, MaxSearchQueries)

\* The search variants smart_search_code builds: the question itself, then the
\* rewrites of every keyword group the question mentions, capped.
SearchQueries(q) ==
    LET ql == LowerText(q)
        q0 == <<q>>
        q1 == ExtendIf(q0, ql, BathroomWords, BathroomQueries)
        q2 == ExtendIf(q1, ql, FenceWords, FenceQueries)
        q3 == ExtendIf(q2, ql, AnimalWords, AnimalQueries)
        q4 == ExtendIf(q3, ql, BusinessWords, BusinessQueries)
    IN  LimitQueries(q4)

\* k_per_query = max(2, k // len(search_queries))
KPerQuery(k, queries) == Max(2, k \div Len(queries))

\* One similarity_search call, as the index sees it.
Call(query, k) == <<query, k>>

\* The inner loop of batch_search without its fingerprint test: every document
\* of the variant is appended.
RECURSIVE AddUnseenAll(_, _, _)
AddUnseenAll(acc, docs, i) ==
    IF i > Len(docs) THEN acc
    ELSE Only({AddUnseenAll(more, docs, i + 1) :
                  more \in {[all_docs |-> Append(acc.all_docs, docs[i]),
                             seen_content |-> acc.seen_content
                                                 \cup {ContentHash(docs[i])}]}})

\* The inner loop of batch_search over the documents of one variant.
RECURSIVE AddUnseen(_, _, _)
AddUnseen(acc, docs, i) ==
    IF i > Len(docs) THEN acc
    ELSE LET content_hash == ContentHash(docs[i])
         IN  IF content_hash \notin acc.seen_content
             THEN Only({AddUnseen(more, docs, i + 1) :
                           more \in {[all_docs |-> Append(acc.all_docs, docs[i]),
                                      seen_content |-> acc.seen_content
                                                          \cup {content_hash}]}})
             ELSE AddUnseen(acc, docs, i + 1)

\* The outer loop of batch_search leaving at the first similarity_search that
\* raises: what was collected so far is returned, later variants are not tried.
RECURSIVE BatchLoopAbort(_, _, _, _, _, _)
BatchLoopAbort(store, queries, k, down, acc, i) ==
    IF i > Len(queries) THEN acc
    ELSE IF Call(queries[i], k) \in down
         THEN acc
         ELSE Only({Only({BatchLoopAbort(store, queries, k, down, more, i + 1) :
                             more \in {AddUnseen(acc, docs, 1)}}) :
                       docs \in {SimilaritySearch(store, queries[i], k)}})

\* The outer loop of batch_search: a variant whose similarity_search raises
\* (its call is in down) is skipped.
RECURSIVE BatchLoop(_, _, _, _, _, _)
BatchLoop(store, queries, k, down, acc, i) ==
    IF i > Len(queries) THEN acc
    ELSE IF Call(queries[i], k) \in down
         THEN BatchLoop(store, queries, k, down, acc, i + 1)
         ELSE Only({Only({BatchLoop(store, queries, k, down, more, i + 1) :
                             more \in {AddUnseen(acc, docs, 1)}}) :
                       docs \in {SimilaritySearch(store, queries[i], k)}})

\* batch_search starting from the set its previous call left behind.
StaleBatch == [all_docs |-> <<>>, seen_content |-> seen_content]

\* all_docs = []; seen_content = set()
FreshBatch == [all_docs |-> <<>>, seen_content |-> {}]

\* batch_search(queries, k_per_query): [all_docs, seen_content] when it returns.
BatchSearch(store, queries, k, down) ==
    BatchLoop(store, queries, k, down, FreshBatch, 1)

\* section.startswith(prefix)
StartsWith(section, prefix) ==
    Len(section) >= Len(prefix) /\ SubSeq(section, 1, Len(prefix)) = prefix

\* The section priority bonus of relevance_score.
SectionBonus(section) ==
    CASE StartsWith(section, <<20, 16>>) -> 15
      [] StartsWith(section, <<18>>) -> 10
      [] StartsWith(section, <<7>>) -> 8
      [] StartsWith(section, <<10>>) -> 12
      [] StartsWith(section, <<9>>) -> 14
      [] StartsWith(section, <<8>>) -> 16
      [] OTHER -> 0

\* The content quality bonus of relevance_score.
QualityBonus(content_lower) ==
      (IF AnyIn(content_lower, {<<"prohibited">>, <<"unlawful">>,
                                <<"shall", "not">>, <<"violation">>})
       THEN 8 ELSE 0)
    + (IF AnyIn(content_lower, {<<"public", "place">>, <<"indecent">>,
                                <<"disorderly">>})
       THEN 6 ELSE 0)
    + (IF AnyIn(content_lower, {<<"urinate">>, <<"defecate">>, <<"excrete">>})
       THEN 10 ELSE 0)
    + (IF AnyIn(content_lower, {<<"permitted">>, <<"allowed">>, <<"shall">>,
                                <<"required">>})
       THEN 3 ELSE 0)

\* relevance_score(doc) for the question of the turn.
RelevanceScore(q, doc) ==
    LET question_words == Words(LowerText(q))
        content_lower == LowerText(doc.text)
        content_words == Words(content_lower)
    IN  Cardinality(question_words \cap content_words)
        + SectionBonus(SectionOf(doc)) + QualityBonus(content_lower)

\* smart_search_code(question, k): [docs, search_queries, seen_content].
SmartSearchCode(store, q, k, down) ==
    Only({Only({[docs |-> Truncate(StableSortDesc(
                              [i \in 1..Len(found.all_docs) |->
                                  <<RelevanceScore(q, found.all_docs[i]),
                                    found.all_docs[i]>>]), k),
                 search_queries |-> variants,
                 seen_content |-> found.seen_content] :
                   found \in {BatchSearch(store, variants,
                                          KPerQuery(k, variants), down)}}) :
             variants \in {SearchQueries(q)}})

\* The sections of a list of documents.
Sections(docs) == {SectionOf(docs[i]) : i \in 1..Len(docs)}

\* The structured fallback's loop: append every fallback document whose section
\* was not among the retrieved ones when the loop began, up to 12 documents.
RECURSIVE FallbackLoop(_, _, _, _)
FallbackLoop(docs0, fallback_docs, seen_sections, i) ==
    IF i > Len(fallback_docs) THEN docs0
    ELSE IF SectionOf(fallback_docs[i]) \notin seen_sections
         THEN Only({IF Len(more) >= 12 THEN more
                    ELSE FallbackLoop(more, fallback_docs, seen_sections, i + 1) :
                       more \in {Append(docs0, fallback_docs[i])}})
         ELSE FallbackLoop(docs0, fallback_docs, seen_sections, i + 1)

\* retrieved_docs after the fallback returned fallback_docs.
FallbackMerge(docs0, fallback_docs) ==
    Only({FallbackLoop(docs0, limited, seen_sections, 1) :
             limited \in {Truncate(fallback_docs, 8)},
             seen_sections \in {Sections(docs0)}})

\* One entry of the context block: "Section {section}:\n{content}", the
\* content cut to 1000 characters.
ContextEntry(doc) ==
    [section |-> SectionOf(doc), head |-> doc.head, text |-> doc.text,
     cut |-> doc.chars > 1000]

\* The loop of _format_retrieved_docs, without its seen_sections test.
RECURSIVE FormatLoopNoDedup(_, _, _, _)
FormatLoopNoDedup(docs, context_parts, seen_sections, i) ==
    IF i > Len(docs) THEN context_parts
    ELSE Only({FormatLoopNoDedup(docs, parts, seen_sections, i + 1) :
                  parts \in {Append(context_parts, ContextEntry(docs[i]))}})

\* The loop of _format_retrieved_docs: one entry per section not seen before.
RECURSIVE FormatLoop(_, _, _, _)
FormatLoop(docs, context_parts, seen_sections, i) ==
    IF i > Len(docs) THEN context_parts
    ELSE LET section == SectionOf(docs[i])
         IN  IF section \notin seen_sections
             THEN Only({FormatLoop(docs, parts, seen, i + 1) :
                           parts \in {Append(context_parts, ContextEntry(docs[i]))},
                           seen \in {seen_sections \cup {section}}})
             ELSE FormatLoop(docs, context_parts, seen_sections, i + 1)

\* _format_retrieved_docs(docs): the context block, as its list of entries.
FormatRetrievedDocs(docs) ==
    Only({FormatLoop(top, <<>>, {}, 1) : top \in {Truncate(docs, 8)}})

\* The insufficiency markers of _quick_needs_check.
NeedsMoreIndicators == {<<"would", "need", "to", "see">>,
                        <<"need", "additional", "sections">>,
                        <<"not", "provided", "in", "these", "sections">>,
                        <<"additional", "information">>}

\* _quick_needs_check with no marker ever found.
QuickNeedsCheckNever(text) == FALSE

\* _quick_needs_check(answer)
QuickNeedsCheck(text) == AnyIn(LowerText(text), NeedsMoreIndicators)

\* The words the pattern \b(\d+\.\d+\.\d+(?:\.\d+)*)\b matches.
SectionNumberWords == {"20.16.030", "7.04.010", "8.04.010", "9.04.020"}

\* re.findall(pattern, answer), each match as a one-word search term.
SectionMatches(text) ==
    LET hits == SelectSeq(text, LAMBDA w : w \in SectionNumberWords)
    IN  [i \in 1..Len(hits) |-> <<hits[i]>>]

\* The topic mapping of _extract_quick_search_terms.
TopicTerms(question_lower) ==
    CASE AnyIn(question_lower, {<<"fence">>, <<"wall">>})
             -> << <<"fence", "height", "zoning">> >>
      [] AnyIn(question_lower, {<<"animal">>})
             -> << <<"animal", "control", "ordinance">> >>
      [] AnyIn(question_lower, {<<"business">>})
             -> << <<"business", "license">> >>
      [] AnyIn(question_lower, {<<"permit">>})
             -> << <<"permit", "requirements">> >>
      [] OTHER -> <<>>

\* _extract_quick_search_terms(answer, original_question)
ExtractQuickSearchTerms(text, original_question) ==
    Truncate(Truncate(SectionMatches(text), 2)
             \o TopicTerms(LowerText(original_question)), 3)

\* The refinement's loop over extra_docs, without adding to seen_sections.
RECURSIVE NewDocsLoopNoAdd(_, _, _, _)
NewDocsLoopNoAdd(extra_docs, kept, seen_sections, i) ==
    IF i > Len(extra_docs) THEN kept
    ELSE IF SectionOf(extra_docs[i]) \notin seen_sections
         THEN Only({NewDocsLoopNoAdd(extra_docs, more, seen_sections, i + 1) :
                       more \in {Append(kept, extra_docs[i])}})
         ELSE NewDocsLoopNoAdd(extra_docs, kept, seen_sections, i + 1)

\* The refinement's loop over extra_docs: keep a document whose section is
\* neither among the retrieved ones nor among those kept before it.
RECURSIVE NewDocsLoop(_, _, _, _)
NewDocsLoop(extra_docs, kept, seen_sections, i) ==
    IF i > Len(extra_docs) THEN kept
    ELSE LET section == SectionOf(extra_docs[i])
         IN  IF section \notin seen_sections
             THEN Only({NewDocsLoop(extra_docs, more, seen, i + 1) :
                           more \in {Append(kept, extra_docs[i])},
                           seen \in {seen_sections \cup {section}}})
             ELSE NewDocsLoop(extra_docs, kept, seen_sections, i + 1)

\* new_docs of the refinement round.
NewDocs(docs0, extra_docs) ==
    Only({NewDocsLoop(extra_docs, <<>>, seen_sections, 1) :
             seen_sections \in {Sections(docs0)}})

\* The results ask_question returns.
NoDocumentsResultAsSuccess ==
    [success |-> TRUE, error |-> "No relevant documents found",
     documents |-> <<>>, answer |-> NoAnswer, iterations |-> 0]

NoDocumentsResult ==
    [success |-> FALSE, error |-> "No relevant documents found",
     documents |-> <<>>, answer |-> NoAnswer, iterations |-> 0]

AnswerResult(documents, text, iterations) ==
    [success |-> TRUE, error |-> NULL, documents |-> documents,
     answer |-> text, iterations |-> iterations]

\* The result of a turn whose refinement added nothing, counted as two rounds.
NotedResultAsSecondRound(documents, text) ==
    [success |-> TRUE, error |-> NULL, documents |-> documents,
     answer |-> text, iterations |-> 2,
     note |-> "Comprehensive search completed"]

NotedResult(documents, text) ==
    [success |-> TRUE, error |-> NULL, documents |-> documents,
     answer |-> text, iterations |-> 1,
     note |-> "Comprehensive search completed"]

\* The except branch of ask_question returning no documents.
ErrorResultNoDocuments(documents) ==
    [success |-> FALSE, error |-> "Error generating response",
     documents |-> <<>>, answer |-> NoAnswer, iterations |-> 1]

ErrorResult(documents) ==
    [success |-> FALSE, error |-> "Error generating response",
     documents |-> documents, answer |-> NoAnswer, iterations |-> 1]

\* ------------------------------------------------------------- environment
\* The questions a user types.
Questions == { <<"how", "tall", "can", "my", "fence", "be">>,
               <<"can", "my", "dog", "use", "the", "toilet", "by", "the",
                 "Fence", "store">>,
               <<"do", "i", "need", "a", "permit">>,
               <<"hello">> }

\* The answers the language model gives.
Answers == { <<"yes", "Section", "20.16.030", "applies">>,
             <<"i", "need", "additional", "sections">>,
             <<"Additional", "information", "is", "in", "20.16.030", "8.04.010",
               "9.04.020">> }

\* How an external call ends: it raises, or it returns a value.
Raised == [ok |-> FALSE]
Returned(v) == [ok |-> TRUE, value |-> v]
ReturnedAny(values) == {Returned(v) : v \in values}

\* The structured queries the self-query retriever may build from a question:
\* a similarity search with no filter, or one filtered on a section the index
\* holds.
NoFilter == [on |-> FALSE]
SectionFilter(section) == [on |-> TRUE, section |-> section]
Filters(held) == {NoFilter} \cup {SectionFilter(SectionOf(d)) : d \in held}

\* retriever.invoke(question) once the structured query is built.
RetrieverInvoke(held, q, filter) ==
    LET matching == {d \in held : ~filter.on \/ SectionOf(d) = filter.section}
    IN  SimilaritySearch(matching, q, Cardinality(matching))

\* The calls batch_search makes for queries with k results each.
Calls(queries, k) == {Call(queries[i], k) : i \in 1..Len(queries)}

\* The ways the index may answer calls: those already made do as before, of
\* the others any may raise while at most MaxDown raise in the session.
StoreOutcomes(calls) ==
    {store_down \cup d :
        d \in {x \in SUBSET (calls \ (store_down \cup store_up)) :
                  Cardinality(store_down \cup x) <= MaxDown}}

\* The ways a remembered call may go: as before when it was made before.
Outcomes(memo, key, fresh) ==
    IF key \in DOMAIN memo THEN {memo[key]} ELSE fresh

Remember(memo, key, outcome) ==
    IF key \in DOMAIN memo THEN memo ELSE memo @@ (key :> outcome)

\* ----------------------------------------------------------------- actions
NoAssistant ==
    [vectorstore |-> NULL, llm |-> NULL, retriever |-> NULL,
     summary_chain |-> NULL, use_self_query |-> FALSE]

\* result before ask_question returned.
NoResult == [success |-> FALSE, error |-> NULL, documents |-> <<>>,
             answer |-> NoAnswer, iterations |-> 0, none |-> TRUE]

\* No ingestion script is running.
NoIngest == [script |-> NULL]

NoScreen == [sections |-> <<>>, answer |-> NoAnswer, status |-> NULL]

Init ==
    /\ pc = "boot"
    /\ api_key \in BOOLEAN
    /\ index \in Indexes
    /\ assistant = NoAssistant
    /\ turns = 0
    /\ question = <<>>
    /\ search_queries = <<>>
    /\ seen_content = {}
    /\ retrieved_docs = <<>>
    /\ context = <<>>
    /\ answer = NoAnswer
    /\ additional_terms = <<>>
    /\ new_docs = <<>>
    /\ result = NoResult
    /\ screen = NoScreen
    /\ batch_calls = 0
    /\ synth_calls = 0
    /\ synth_failed = FALSE
    /\ store_down = {}
    /\ store_up = {}
    /\ retriever_memo = <<>>
    /\ llm_memo = <<>>
    /\ asked = {}
    /\ documents_of = <<>>
    /\ ingest = NoIngest
    /\ search_k = 12

\* run going on to the prompt after initialize raised for want of the key.
InitializeThenPrompt ==
    /\ pc = "boot"
    /\ IF ~api_key
       THEN /\ pc' = "input"
            /\ screen' = [NoScreen EXCEPT !.status = "Failed to initialize system"]
            /\ UNCHANGED assistant
       ELSE /\ \E built \in BOOLEAN :
                assistant' = [vectorstore |-> "chroma_db",
                              llm |-> "llm",
                              retriever |-> IF built THEN "retriever" ELSE NULL,
                              summary_chain |-> "chain",
                              use_self_query |-> built]
            /\ pc' = "input"
            /\ screen' = [NoScreen EXCEPT !.status = "Knowledge base loaded successfully!"]
    /\ UNCHANGED <<search_k, ingest, api_key, index, turns, question, search_queries, seen_content,
                   retrieved_docs, context, answer, additional_terms, new_docs,
                   result, batch_calls, synth_calls, synth_failed, store_down,
                   store_up, retriever_memo, llm_memo, asked, documents_of>>

\* MunicipalCodeAssistant.initialize as TUIInterface.run calls it: without the
\* key it raises and run returns; building the self-query retriever may fail.
Initialize ==
    /\ pc = "boot"
    /\ IF ~api_key
       THEN /\ pc' = "halted"
            /\ screen' = [NoScreen EXCEPT !.status = "Failed to initialize system"]
            /\ UNCHANGED assistant
       ELSE /\ \E built \in BOOLEAN :
                assistant' = [vectorstore |-> "chroma_db",
                              llm |-> "llm",
                              retriever |-> IF built THEN "retriever" ELSE NULL,
                              summary_chain |-> "chain",
                              use_self_query |-> built]
            /\ pc' = "input"
            /\ screen' = [NoScreen EXCEPT !.status = "Knowledge base loaded successfully!"]
    /\ UNCHANGED <<search_k, ingest, api_key, index, turns, question, search_queries, seen_content,
                   retrieved_docs, context, answer, additional_terms, new_docs,
                   result, batch_calls, synth_calls, synth_failed, store_down,
                   store_up, retriever_memo, llm_memo, asked, documents_of>>

\* The lines a user types at the prompt.
Lines == Questions \cup { <<"exit">>, <<"QUIT">> }

\* TUIInterface.run reading a line (get_styled_input): "exit" or "quit" ends
\* the loop, any other line starts a turn.
GetInput ==
    /\ pc = "input"
    /\ \E line \in Lines :
        IF LowerText(line) \in { <<"exit">>, <<"quit">> }
        THEN /\ pc' = "ended"
             /\ UNCHANGED <<turns, question, search_queries, retrieved_docs,
                            context, answer, additional_terms, new_docs, result,
                            screen, batch_calls, synth_calls, synth_failed,
                            asked>>
        ELSE /\ turns < MaxTurns
             /\ line \in asked \/ Cardinality(asked) < MaxQuestions
             /\ asked' = asked \cup {line}
             /\ pc' = "ask"
             /\ turns' = turns + 1
             /\ question' = line
             /\ search_queries' = <<>>
             /\ retrieved_docs' = <<>>
             /\ context' = <<>>
             /\ answer' = NoAnswer
             /\ additional_terms' = <<>>
             /\ new_docs' = <<>>
             /\ result' = NoResult
             /\ screen' = NoScreen
             /\ batch_calls' = 0
             /\ synth_calls' = 0
             /\ synth_failed' = FALSE
    /\ UNCHANGED <<search_k, ingest, api_key, index, assistant, seen_content, store_down, store_up,
                   retriever_memo, llm_memo, documents_of>>

\* input() raises something other than KeyboardInterrupt (EOFError on a
\* closed stdin): get_styled_input lets it pass, run's except Exception reports
\* it and the loop reads again.
InputError ==
    /\ pc = "input"
    /\ screen' = [NoScreen EXCEPT !.status = "An error occurred"]
    /\ pc' = "input"
    /\ UNCHANGED <<search_k, ingest, api_key, index, assistant, turns, question, search_queries,
                   seen_content, retrieved_docs, context, answer,
                   additional_terms, new_docs, result, batch_calls, synth_calls,
                   synth_failed, store_down, store_up, retriever_memo, llm_memo,
                   asked, documents_of>>

\* Ctrl+C at the prompt: get_styled_input re-raises KeyboardInterrupt and run
\* leaves the loop.
Interrupt ==
    /\ pc = "input"
    /\ pc' = "ended"
    /\ UNCHANGED <<search_k, ingest, api_key, index, assistant, turns, question, search_queries,
                   seen_content, retrieved_docs, context, answer,
                   additional_terms, new_docs, result, screen, batch_calls,
                   synth_calls, synth_failed, store_down, store_up,
                   retriever_memo, llm_memo, asked, documents_of>>

\* ask_question up to the structured fallback: the initialisation guard and
\* smart_search_code(question, k=12).
\* if len(retrieved_docs) < 5 and self.use_self_query
NeedsFallbackAnyRetriever(docs, a) == Len(docs) < 5

NeedsFallback(docs, a) == Len(docs) < 5 /\ a.use_self_query

AskSearch ==
    /\ pc = "ask"
    /\ IF assistant.vectorstore = NULL
       THEN \* RuntimeError, caught by run's except Exception
            /\ pc' = "input"
            /\ screen' = [NoScreen EXCEPT !.status = "An error occurred"]
            /\ UNCHANGED <<search_queries, seen_content, retrieved_docs,
                           batch_calls, store_down, store_up>>
       ELSE \E calls \in {Calls(SearchQueries(question),
                                 KPerQuery(12, SearchQueries(question)))} :
            \E down \in StoreOutcomes(calls) :
            \E found \in {SmartSearchCode(index, question, 12, down)} :
                      /\ store_down' = down
                      /\ store_up' = store_up \cup (calls \ down)
                      /\ search_queries' = found.search_queries
                      /\ seen_content' = found.seen_content
                      /\ retrieved_docs' = found.docs
                      /\ batch_calls' = batch_calls + 1
                      /\ pc' = IF NeedsFallback(found.docs, assistant)
                               THEN "ask_fallback" ELSE "ask_synth"
                      /\ UNCHANGED screen
    /\ UNCHANGED <<search_k, ingest, api_key, index, assistant, turns, question, context, answer,
                   additional_terms, new_docs, result, synth_calls, synth_failed,
                   retriever_memo, llm_memo, asked, documents_of>>

\* The fallback without its try: a raising retriever ends the turn.
AskFallbackPropagates ==
    /\ pc = "ask_fallback"
    /\ \E outcome \in Outcomes(retriever_memo, question,
                               {Raised} \cup ReturnedAny(Filters(index))) :
        /\ retriever_memo' = Remember(retriever_memo, question, outcome)
        /\ retrieved_docs' = IF ~outcome.ok THEN retrieved_docs
                             ELSE FallbackMerge(retrieved_docs,
                                     RetrieverInvoke(index, question, outcome.value))
        /\ pc' = IF outcome.ok THEN "ask_synth" ELSE "input"
        /\ screen' = IF outcome.ok THEN screen
                     ELSE [NoScreen EXCEPT !.status = "An error occurred"]
    /\ UNCHANGED <<search_k, ingest, api_key, index, assistant, turns, question, search_queries,
                   seen_content, context, answer, additional_terms, new_docs,
                   result, batch_calls, synth_calls, synth_failed,
                   store_down, store_up, llm_memo, asked, documents_of>>

\* The structured fallback: retriever.invoke(question) raises, which is
\* passed over, or returns documents that are merged into retrieved_docs.
AskFallback ==
    /\ pc = "ask_fallback"
    /\ \E outcome \in Outcomes(retriever_memo, question,
                               {Raised} \cup ReturnedAny(Filters(index))) :
        /\ retriever_memo' = Remember(retriever_memo, question, outcome)
        /\ retrieved_docs' = IF ~outcome.ok THEN retrieved_docs
                             ELSE FallbackMerge(retrieved_docs,
                                     RetrieverInvoke(index, question, outcome.value))
    /\ pc' = "ask_synth"
    /\ UNCHANGED <<search_k, ingest, api_key, index, assistant, turns, question, search_queries,
                   seen_content, context, answer, additional_terms, new_docs,
                   result, screen, batch_calls, synth_calls, synth_failed,
                   store_down, store_up, llm_memo, asked, documents_of>>

\* ask_question from the empty check to the end of the first round: no
\* documents, or the first summary_chain.invoke (which may raise), the
\* insufficiency check and the extraction of the follow-up terms.
AskSynth ==
    /\ pc = "ask_synth"
    /\ IF retrieved_docs = <<>>
       THEN /\ result' = NoDocumentsResult
            /\ pc' = "render"
            /\ UNCHANGED <<context, answer, additional_terms, synth_calls,
                           synth_failed, llm_memo>>
       ELSE \E prompt \in { <<question, FormatRetrievedDocs(retrieved_docs)>> } :
            \E outcome \in Outcomes(llm_memo, prompt, {Raised} \cup ReturnedAny(Answers)) :
                  /\ llm_memo' = Remember(llm_memo, prompt, outcome)
                  /\ context' = prompt[2]
                  /\ synth_calls' = synth_calls + 1
                  /\ IF ~outcome.ok
                     THEN /\ synth_failed' = TRUE
                          /\ result' = ErrorResult(retrieved_docs)
                          /\ pc' = "render"
                          /\ UNCHANGED <<answer, additional_terms>>
                     ELSE /\ synth_failed' = FALSE
                          /\ answer' = outcome.value
                          /\ IF ~QuickNeedsCheck(outcome.value)
                             THEN /\ result' = AnswerResult(retrieved_docs, outcome.value, 1)
                                  /\ pc' = "render"
                                  /\ UNCHANGED additional_terms
                             ELSE \E terms \in {ExtractQuickSearchTerms(outcome.value, question)} :
                                      /\ additional_terms' = terms
                                      /\ IF terms # <<>>
                                         THEN /\ pc' = "ask_refine"
                                              /\ UNCHANGED result
                                         ELSE /\ result' = NotedResult(retrieved_docs, outcome.value)
                                              /\ pc' = "render"
    /\ UNCHANGED <<search_k, ingest, api_key, index, assistant, turns, question, search_queries,
                   seen_content, retrieved_docs, new_docs, screen, batch_calls,
                   store_down, store_up, retriever_memo, asked,
                   documents_of>>

\* The refinement's retrieval: batch_search(additional_terms[:3], 2) and the
\* choice of the new documents.
AskRefine ==
    /\ pc = "ask_refine"
    /\ \E queries \in {Truncate(additional_terms, 3)} :
       \E down \in StoreOutcomes(Calls(queries, 2)) :
       \E found \in {BatchSearch(index, queries, 2, down)} :
       \E fresh \in {NewDocs(retrieved_docs, found.all_docs)} :
                 /\ store_down' = down
                 /\ store_up' = store_up \cup (Calls(queries, 2) \ down)
                 /\ seen_content' = found.seen_content
                 /\ batch_calls' = batch_calls + 1
                 /\ new_docs' = fresh
                 /\ IF fresh # <<>>
                    THEN /\ pc' = "ask_final"
                         /\ UNCHANGED result
                    ELSE /\ result' = NotedResult(retrieved_docs, answer)
                         /\ pc' = "render"
    /\ UNCHANGED <<search_k, ingest, api_key, index, assistant, turns, question, search_queries,
                   retrieved_docs, context, answer, additional_terms, screen,
                   synth_calls, synth_failed, retriever_memo, llm_memo,
                   asked, documents_of>>

\* The refinement's synthesis going round again: a final answer that still
\* carries a marker starts another refinement round.
AskFinalAgain ==
    /\ pc = "ask_final"
    /\ \E all_docs \in {retrieved_docs \o new_docs} :
       \E prompt \in { <<question, FormatRetrievedDocs(all_docs)>> } :
       \E outcome \in Outcomes(llm_memo, prompt, {Raised} \cup ReturnedAny(Answers)) :
             /\ llm_memo' = Remember(llm_memo, prompt, outcome)
             /\ context' = prompt[2]
             /\ synth_calls' = synth_calls + 1
             /\ IF ~outcome.ok
                THEN /\ synth_failed' = TRUE
                     /\ result' = ErrorResult(retrieved_docs)
                     /\ pc' = "render"
                     /\ UNCHANGED <<retrieved_docs, additional_terms>>
                ELSE /\ synth_failed' = FALSE
                     /\ IF QuickNeedsCheck(outcome.value)
                           /\ ExtractQuickSearchTerms(outcome.value, question) # <<>>
                        THEN /\ retrieved_docs' = all_docs
                             /\ additional_terms' =
                                    ExtractQuickSearchTerms(outcome.value, question)
                             /\ pc' = "ask_refine"
                             /\ UNCHANGED result
                        ELSE /\ result' = AnswerResult(all_docs, outcome.value, 2)
                             /\ pc' = "render"
                             /\ UNCHANGED <<retrieved_docs, additional_terms>>
    /\ UNCHANGED <<search_k, ingest, api_key, index, assistant, turns, question, search_queries,
                   seen_content, answer, new_docs, screen, batch_calls,
                   store_down, store_up, retriever_memo, asked, documents_of>>

\* The refinement's synthesis: the second summary_chain.invoke over
\* retrieved_docs + new_docs, which may raise.
\* The second synthesis falling back on the first answer when it fails.
AskFinalKeepsFirstAnswer ==
    /\ pc = "ask_final"
    /\ \E all_docs \in {retrieved_docs \o new_docs} :
       \E prompt \in { <<question, FormatRetrievedDocs(all_docs)>> } :
       \E outcome \in Outcomes(llm_memo, prompt, {Raised} \cup ReturnedAny(Answers)) :
             /\ llm_memo' = Remember(llm_memo, prompt, outcome)
             /\ context' = prompt[2]
             /\ synth_calls' = synth_calls + 1
             /\ IF ~outcome.ok
                THEN /\ synth_failed' = TRUE
                     /\ result' = AnswerResult(retrieved_docs, answer, 1)
                ELSE /\ synth_failed' = FALSE
                     /\ result' = AnswerResult(all_docs, outcome.value, 2)
    /\ pc' = "render"
    /\ UNCHANGED <<search_k, ingest, api_key, index, assistant, turns, question, search_queries,
                   seen_content, retrieved_docs, answer, additional_terms,
                   new_docs, screen, batch_calls, store_down, store_up,
                   retriever_memo, asked, documents_of>>

AskFinal ==
    /\ pc = "ask_final"
    /\ \E all_docs \in {retrieved_docs \o new_docs} :
       \E prompt \in { <<question, FormatRetrievedDocs(all_docs)>> } :
       \E outcome \in Outcomes(llm_memo, prompt, {Raised} \cup ReturnedAny(Answers)) :
             /\ llm_memo' = Remember(llm_memo, prompt, outcome)
             /\ context' = prompt[2]
             /\ synth_calls' = synth_calls + 1
             /\ IF ~outcome.ok
                THEN /\ synth_failed' = TRUE
                     /\ result' = ErrorResult(retrieved_docs)
                ELSE /\ synth_failed' = FALSE
                     /\ result' = AnswerResult(all_docs, outcome.value, 2)
    /\ pc' = "render"
    /\ UNCHANGED <<search_k, ingest, api_key, index, assistant, turns, question, search_queries,
                   seen_content, retrieved_docs, answer, additional_terms,
                   new_docs, screen, batch_calls, store_down, store_up,
                   retriever_memo, asked, documents_of>>

\* What run shows for a result: nothing but the warning when success is false,
\* else the sections and the answer, or the error when there is no answer.
Rendered(res) ==
    IF ~res.success
    THEN [sections |-> <<>>, answer |-> NoAnswer, status |-> res.error]
    ELSE [sections |-> res.documents,
          answer |-> res.answer,
          status |-> IF res.answer # NoAnswer THEN NULL ELSE res.error]

\* The loop going back to the prompt with the result not shown.
RenderNothing ==
    /\ pc = "render"
    /\ screen' = screen
    /\ documents_of' = Remember(documents_of, question, result.documents)
    /\ pc' = "input"
    /\ UNCHANGED <<search_k, ingest, api_key, index, assistant, turns, question, search_queries,
                   seen_content, retrieved_docs, context, answer,
                   additional_terms, new_docs, result, batch_calls, synth_calls,
                   synth_failed, store_down, store_up, retriever_memo, llm_memo,
                   asked>>

\* TUIInterface.run after ask_question returned: render the result and go
\* back to the prompt.
Render ==
    /\ pc = "render"
    /\ screen' = Rendered(result)
    /\ documents_of' = Remember(documents_of, question, result.documents)
    /\ pc' = "input"
    /\ UNCHANGED <<search_k, ingest, api_key, index, assistant, turns, question, search_queries,
                   seen_content, retrieved_docs, context, answer,
                   additional_terms, new_docs, result, batch_calls, synth_calls,
                   synth_failed, store_down, store_up, retriever_memo, llm_memo,
                   asked>>

\* An exception while rendering that ends the session.
RenderErrorEndsSession ==
    /\ pc = "render"
    /\ screen' = [NoScreen EXCEPT !.status = "An error occurred"]
    /\ documents_of' = Remember(documents_of, question, result.documents)
    /\ pc' = "ended"
    /\ UNCHANGED <<search_k, ingest, api_key, index, assistant, turns, question, search_queries,
                   seen_content, retrieved_docs, context, answer,
                   additional_terms, new_docs, result, batch_calls, synth_calls,
                   synth_failed, store_down, store_up, retriever_memo, llm_memo,
                   asked>>

\* TUIInterface.run after ask_question returned, when a rendering call raises
\* (print_section_box on a section that is no string, a failing write): run's
\* except Exception reports it and the loop goes back to the prompt.
RenderError ==
    /\ pc = "render"
    /\ screen' = [NoScreen EXCEPT !.status = "An error occurred"]
    /\ documents_of' = Remember(documents_of, question, result.documents)
    /\ pc' = "input"
    /\ UNCHANGED <<search_k, ingest, api_key, index, assistant, turns, question, search_queries,
                   seen_content, retrieved_docs, context, answer,
                   additional_terms, new_docs, result, batch_calls, synth_calls,
                   synth_failed, store_down, store_up, retriever_memo, llm_memo,
                   asked>>

AskStep == AskSearch \/ AskFallback \/ AskSynth \/ AskRefine \/ AskFinal

Next ==
    \/ Initialize
    \/ GetInput
    \/ InputError
    \/ Interrupt
    \/ AskSearch
    \/ AskFallback
    \/ AskSynth
    \/ AskRefine
    \/ AskFinal
    \/ Render
    \/ RenderError

Spec == Init /\ [][Next]_vars

\* A turn that began is run to its end: ask_question and the rendering are
\* synchronous code that nothing suspends.
FairSpec == Spec /\ WF_vars(AskStep) /\ WF_vars(Render)

\* ------------------------------------------- smart_search_code on its own
\* The words of the questions smart_search_code is tried on, in the order in
\* which a question uses them: they reach every combination of its four
\* keyword groups.
SearchWords == <<"hello", "public", "restroom", "toilet", "Fence", "wall",
                 "carpet", "dog", "store">>

\* The questions of at most MaxQuestionWords of these words.
SearchQuestions ==
    {SelectSeq(SearchWords, LAMBDA w : w \in chosen) :
        chosen \in {c \in SUBSET Range(SearchWords) :
                       Cardinality(c) >= 1 /\ Cardinality(c) <= MaxQuestionWords}}

InitSearch ==
    /\ pc = "search"
    /\ api_key = TRUE
    /\ index \in Indexes
    /\ assistant = [vectorstore |-> "chroma_db", llm |-> "llm",
                    retriever |-> NULL, summary_chain |-> "chain",
                    use_self_query |-> FALSE]
    /\ turns = 1
    /\ question \in SearchQuestions
    /\ search_queries = <<>>
    /\ seen_content = {}
    /\ retrieved_docs = <<>>
    /\ context = <<>>
    /\ answer = NoAnswer
    /\ additional_terms = <<>>
    /\ new_docs = <<>>
    /\ result = NoResult
    /\ screen = NoScreen
    /\ batch_calls = 0
    /\ synth_calls = 0
    /\ synth_failed = FALSE
    /\ store_down = {}
    /\ store_up = {}
    /\ retriever_memo = <<>>
    /\ llm_memo = <<>>
    /\ asked = {question}
    /\ documents_of = <<>>
    /\ ingest = NoIngest
    /\ search_k = 12

\* smart_search_code(question, k), called once.
SmartSearch ==
    /\ pc = "search"
    /\ \E calls \in {Calls(SearchQueries(question),
                             KPerQuery(search_k, SearchQueries(question)))} :
       \E down \in StoreOutcomes(calls) :
       \E found \in {SmartSearchCode(index, question, search_k, down)} :
                 /\ store_down' = down
                 /\ store_up' = store_up \cup (calls \ down)
                 /\ search_queries' = found.search_queries
                 /\ seen_content' = found.seen_content
                 /\ retrieved_docs' = found.docs
                 /\ batch_calls' = batch_calls + 1
    /\ pc' = "searched"
    /\ UNCHANGED <<search_k, ingest, api_key, index, assistant, turns, question, context, answer,
                   additional_terms, new_docs, result, screen, synth_calls,
                   synth_failed, retriever_memo, llm_memo, asked, documents_of>>

NextSearch == SmartSearch

SearchSpec == InitSearch /\ [][NextSearch]_vars

\* ------------------------------------- the refinement's synthesis on its own
\* The size smart_search_code cuts the first-round list to (k=12).
MaxRetrieved == 12

\* The i-th section of a large index: each its own section and opening.
SectionDoc(i) ==
    Doc(<<30, i, 10>>, ToString(i), <<"fence", "zoning", "rules">>, 400)

\* The first n of these sections, and the m after them.
FirstSections(n) == [i \in 1..n |-> SectionDoc(i)]
NextSections(n, m) == [i \in 1..m |-> SectionDoc(n + i)]

\* A turn about to make its second synthesis call: the first round retrieved
\* between 1 and 12 sections, the first answer carried a marker, and the
\* refinement's search found new sections.
InitFinal ==
    /\ pc = "ask_final"
    /\ api_key = TRUE
    /\ index = Range(FirstSections(MaxRetrieved + MaxNewDocs))
    /\ assistant = [vectorstore |-> "chroma_db", llm |-> "llm",
                    retriever |-> NULL, summary_chain |-> "chain",
                    use_self_query |-> FALSE]
    /\ turns = 1
    /\ question = <<"how", "tall", "can", "my", "fence", "be">>
    /\ search_queries = SearchQueries(question)
    /\ \E n \in 1..MaxRetrieved, m \in 1..MaxNewDocs :
           /\ retrieved_docs = FirstSections(n)
           /\ new_docs = NextSections(n, m)
           /\ seen_content = Heads(new_docs)
    /\ context = FormatRetrievedDocs(retrieved_docs)
    /\ answer = <<"i", "need", "additional", "sections">>
    /\ additional_terms = ExtractQuickSearchTerms(answer, question)
    /\ result = NoResult
    /\ screen = NoScreen
    /\ batch_calls = 2
    /\ synth_calls = 1
    /\ synth_failed = FALSE
    /\ store_down = {}
    /\ store_up = Calls(search_queries, KPerQuery(12, search_queries))
                      \cup Calls(Truncate(additional_terms, 3), 2)
    /\ retriever_memo = <<>>
    /\ llm_memo = (<<question, context>> :> Returned(answer))
    /\ asked = {question}
    /\ documents_of = <<>>
    /\ ingest = NoIngest
    /\ search_k = 12

NextFinal == AskFinal

FinalSpec == InitFinal /\ [][NextFinal]_vars

\* ---------------------------------------------------- ingestion scripts
\* The ingestion scripts: ingest.py adds its batches in a loop,
\* load_ocr_to_db.py hands each batch to a pool of threads.
Scripts == {"ingest.py", "load_ocr_to_db.py"}

\* A script about to run: batches batches of documents to add, of which the
\* add_documents calls of the batches in failing raise.
IngestRun(script, batches, failing) ==
    [script |-> script, batches |-> batches, failing |-> failing,
     attempted |-> {}, loaded |-> {}, successful |-> 0, failed |-> 0,
     running |-> {}, futures |-> {}, results |-> <<>>]

InitIngest ==
    /\ pc = "ingest_boot"
    /\ api_key \in BOOLEAN
    /\ index = {}
    /\ assistant = NoAssistant
    /\ turns = 0
    /\ question = <<>>
    /\ search_queries = <<>>
    /\ seen_content = {}
    /\ retrieved_docs = <<>>
    /\ context = <<>>
    /\ answer = NoAnswer
    /\ additional_terms = <<>>
    /\ new_docs = <<>>
    /\ result = NoResult
    /\ screen = NoScreen
    /\ batch_calls = 0
    /\ synth_calls = 0
    /\ synth_failed = FALSE
    /\ store_down = {}
    /\ store_up = {}
    /\ retriever_memo = <<>>
    /\ llm_memo = <<>>
    /\ asked = {}
    /\ documents_of = <<>>
    /\ search_k = 12
    /\ \E script \in Scripts, batches \in 1..MaxBatches :
           \E failing \in SUBSET (1..batches) :
               ingest = IngestRun(script, batches, failing)

\* main of either script up to its batches: without GOOGLE_API_KEY it prints
\* the error and returns.
IngestMain ==
    /\ pc = "ingest_boot"
    /\ IF ~api_key
       THEN /\ pc' = "ingest_done"
            /\ screen' = [NoScreen EXCEPT !.status = "GOOGLE_API_KEY not found"]
       ELSE /\ pc' = "ingest_batches"
            /\ UNCHANGED screen
    /\ UNCHANGED <<search_k, ingest, api_key, index, assistant, turns, question,
                   search_queries, seen_content, retrieved_docs, context, answer,
                   additional_terms, new_docs, result, batch_calls, synth_calls,
                   synth_failed, store_down, store_up, retriever_memo, llm_memo,
                   asked, documents_of>>

\* One round of the batch loop of ingest.py: retriever.add_documents(batch)
\* for the next batch; when it raises, the exception leaves main.
IngestBatch ==
    /\ pc = "ingest_batches"
    /\ ingest.script = "ingest.py"
    /\ LET i == Cardinality(ingest.attempted) + 1
       IN  /\ i <= ingest.batches
           /\ ingest' = [ingest EXCEPT
                            !.attempted = @ \cup {i},
                            !.loaded = IF i \in ingest.failing THEN @ ELSE @ \cup {i}]
           /\ pc' = IF i \in ingest.failing THEN "ingest_raised"
                    ELSE "ingest_batches"
    /\ UNCHANGED <<search_k, api_key, index, assistant, turns, question, search_queries,
                   seen_content, retrieved_docs, context, answer,
                   additional_terms, new_docs, result, screen, batch_calls,
                   synth_calls, synth_failed, store_down, store_up,
                   retriever_memo, llm_memo, asked, documents_of>>

\* The end of ingest.py: vectorstore.persist() and the closing message.
IngestFinish ==
    /\ pc = "ingest_batches"
    /\ ingest.script = "ingest.py"
    /\ Cardinality(ingest.attempted) = ingest.batches
    /\ pc' = "ingest_done"
    /\ screen' = [NoScreen EXCEPT !.status = "FINAL INGESTION COMPLETE"]
    /\ UNCHANGED <<search_k, ingest, api_key, index, assistant, turns, question,
                   search_queries, seen_content, retrieved_docs, context, answer,
                   additional_terms, new_docs, result, batch_calls, synth_calls,
                   synth_failed, store_down, store_up, retriever_memo, llm_memo,
                   asked, documents_of>>

\* What add_batch_to_vectorstore returns for a batch: its message carries the
\* mark of a failure when add_documents raised, else the mark of a success.
BatchResultUnmarked(i, raised) ==
    [batch |-> i, mark |-> IF raised THEN "none" ELSE "added"]

BatchResult(i, raised) ==
    [batch |-> i, mark |-> IF raised THEN "failed" ELSE "added"]

\* len([r for r in results if mark in r])
CountMarked(results, mark) ==
    Cardinality({p \in 1..Len(results) : results[p].mark = mark})

\* A thread of the pool of load_ocr_to_db.py takes up a submitted batch: at
\* most MaxWorkers batches run at a time, taken in any order.
LoadOcrStart ==
    /\ pc = "ingest_batches"
    /\ ingest.script = "load_ocr_to_db.py"
    /\ Cardinality(ingest.running) < MaxWorkers
    /\ \E i \in (1..ingest.batches) \ ingest.attempted :
           ingest' = [ingest EXCEPT !.attempted = @ \cup {i},
                                    !.running = @ \cup {i}]
    /\ pc' = "ingest_batches"
    /\ UNCHANGED <<search_k, api_key, index, assistant, turns, question, search_queries,
                   seen_content, retrieved_docs, context, answer,
                   additional_terms, new_docs, result, screen, batch_calls,
                   synth_calls, synth_failed, store_down, store_up,
                   retriever_memo, llm_memo, asked, documents_of>>

\* add_batch_to_vectorstore of load_ocr_to_db.py for one batch, run by a
\* thread of the pool: a failure of add_documents is caught, and either way
\* the message becomes the result of the batch's future.
LoadOcrBatch ==
    /\ pc = "ingest_batches"
    /\ ingest.script = "load_ocr_to_db.py"
    /\ \E i \in ingest.running :
           ingest' = [ingest EXCEPT
                         !.running = @ \ {i},
                         !.loaded = IF i \in ingest.failing THEN @ ELSE @ \cup {i},
                         !.futures = @ \cup {BatchResult(i, i \in ingest.failing)}]
    /\ pc' = "ingest_batches"
    /\ UNCHANGED <<search_k, api_key, index, assistant, turns, question, search_queries,
                   seen_content, retrieved_docs, context, answer,
                   additional_terms, new_docs, result, screen, batch_calls,
                   synth_calls, synth_failed, store_down, store_up,
                   retriever_memo, llm_memo, asked, documents_of>>

\* One round of main's loop over as_completed(futures): the result of a
\* completed future not yet seen is appended to results.
LoadOcrCollect ==
    /\ pc = "ingest_batches"
    /\ ingest.script = "load_ocr_to_db.py"
    /\ \E r \in ingest.futures \ Range(ingest.results) :
           ingest' = [ingest EXCEPT !.results = Append(@, r)]
    /\ pc' = "ingest_batches"
    /\ UNCHANGED <<search_k, api_key, index, assistant, turns, question, search_queries,
                   seen_content, retrieved_docs, context, answer,
                   additional_terms, new_docs, result, screen, batch_calls,
                   synth_calls, synth_failed, store_down, store_up,
                   retriever_memo, llm_memo, asked, documents_of>>

\* The end of load_ocr_to_db.py once the result of every future was
\* collected: the successful and the failed results are counted and printed.
LoadOcrFinish ==
    /\ pc = "ingest_batches"
    /\ ingest.script = "load_ocr_to_db.py"
    /\ Len(ingest.results) = ingest.batches
    /\ ingest' = [ingest EXCEPT
                     !.successful = CountMarked(ingest.results, "added"),
                     !.failed = CountMarked(ingest.results, "failed")]
    /\ pc' = "ingest_done"
    /\ screen' = [NoScreen EXCEPT !.status = "COMPLETE"]
    /\ UNCHANGED <<search_k, api_key, index, assistant, turns, question,
                   search_queries, seen_content, retrieved_docs, context, answer,
                   additional_terms, new_docs, result, batch_calls, synth_calls,
                   synth_failed, store_down, store_up, retriever_memo, llm_memo,
                   asked, documents_of>>

NextIngest ==
    \/ IngestMain
    \/ IngestBatch
    \/ IngestFinish
    \/ LoadOcrStart
    \/ LoadOcrBatch
    \/ LoadOcrCollect
    \/ LoadOcrFinish

IngestSpec == InitIngest /\ [][NextIngest]_vars

\* ------------------------------------------------ the fallback on its own
\* A session over the larger index, followed from start-up to the end of the
\* structured fallback of its turn.
InitFallback ==
    /\ pc = "boot"
    /\ api_key \in BOOLEAN
    /\ index = LargeIndex
    /\ assistant = NoAssistant
    /\ turns = 0
    /\ question = <<>>
    /\ search_queries = <<>>
    /\ seen_content = {}
    /\ retrieved_docs = <<>>
    /\ context = <<>>
    /\ answer = NoAnswer
    /\ additional_terms = <<>>
    /\ new_docs = <<>>
    /\ result = NoResult
    /\ screen = NoScreen
    /\ batch_calls = 0
    /\ synth_calls = 0
    /\ synth_failed = FALSE
    /\ store_down = {}
    /\ store_up = {}
    /\ retriever_memo = <<>>
    /\ llm_memo = <<>>
    /\ asked = {}
    /\ documents_of = <<>>
    /\ ingest = NoIngest
    /\ search_k = 12

NextFallback ==
    \/ Initialize
    \/ GetInput
    \/ AskSearch
    \/ AskFallback

FallbackSpec == InitFallback /\ [][NextFallback]_vars

\* ------------------------------------- smart_search_code for any k
\* The indexes smart_search_code is run on for its ranking.
RankIndexes == {Universe, LargeIndex, Universe \cup LargeIndex}

\* smart_search_code(question, k) on its own, for a user's question and any k
\* up to MaxK.
InitRank ==
    /\ pc = "search"
    /\ api_key = TRUE
    /\ index \in RankIndexes
    /\ assistant = [vectorstore |-> "chroma_db", llm |-> "llm",
                    retriever |-> NULL, summary_chain |-> "chain",
                    use_self_query |-> FALSE]
    /\ turns = 1
    /\ question \in Questions
    /\ search_queries = <<>>
    /\ seen_content = {}
    /\ retrieved_docs = <<>>
    /\ context = <<>>
    /\ answer = NoAnswer
    /\ additional_terms = <<>>
    /\ new_docs = <<>>
    /\ result = NoResult
    /\ screen = NoScreen
    /\ batch_calls = 0
    /\ synth_calls = 0
    /\ synth_failed = FALSE
    /\ store_down = {}
    /\ store_up = {}
    /\ retriever_memo = <<>>
    /\ llm_memo = <<>>
    /\ asked = {question}
    /\ documents_of = <<>>
    /\ ingest = NoIngest
    /\ search_k \in 1..MaxK

RankSpec == InitRank /\ [][NextSearch]_vars

\* ---------------------------------------------------------- get_ocr_text
\* A text is a sequence of characters; the characters that matter here are
\* the digits that name a page, the newline and the carriage return.
LF == "\n"
CR == "\r"

\* math.ceil(a / b) for positive b.
Ceil(a, b) == (a + b - 1) \div b

\* page_chunks: the (start, end) page ranges handed to the pool, one for each
\* core.
PageChunks(total_pages, num_cores) ==
    Only({[i \in 1..num_cores |->
              <<(i - 1) * chunk_size + 1, Min(i * chunk_size, total_pages)>>] :
             chunk_size \in {Ceil(total_pages, num_cores)}})

\* str(el) for the element OCR finds on a page: the page's number, and on the
\* page whose text has a carriage return the number on either side of it.
PageText(p, cr_page) ==
    <<ToString(p)>> \o (IF p = cr_page THEN <<CR, ToString(p)>> ELSE <<>>)

\* process_page_chunk: the texts of the elements of pages start..end of the
\* PDF, or [] when partition_pdf raised.
RECURSIVE PageTexts(_, _, _, _)
PageTexts(p, last, total_pages, cr_page) ==
    IF p > last \/ p > total_pages THEN <<>>
    ELSE <<PageText(p, cr_page)>> \o PageTexts(p + 1, last, total_pages, cr_page)

ProcessPageChunk(page_chunk, total_pages, cr_page, raised) ==
    IF raised THEN <<>>
    ELSE PageTexts(page_chunk[1], page_chunk[2], total_pages, cr_page)

\* "\n".join(all_text_chunks)
RECURSIVE JoinLines(_, _)
JoinLines(chunks, i) ==
    IF i > Len(chunks) THEN <<>>
    ELSE IF i = Len(chunks) THEN chunks[i]
    ELSE chunks[i] \o <<LF>> \o JoinLines(chunks, i + 1)

\* f.write(text) on a file opened in text mode: each newline is written as
\* the platform's line separator.
RECURSIVE WriteText(_, _, _)
WriteText(text, linesep, i) ==
    IF i > Len(text) THEN <<>>
    ELSE (IF text[i] = LF THEN linesep ELSE <<text[i]>>)
         \o WriteText(text, linesep, i + 1)

\* f.read() on a file opened in text mode: a carriage return with its
\* newline, and a carriage return on its own, are read as one newline.
RECURSIVE ReadText(_, _)
ReadText(stored, i) ==
    IF i > Len(stored) THEN <<>>
    ELSE IF stored[i] = CR
         THEN <<LF>> \o ReadText(stored, IF i < Len(stored) /\ stored[i + 1] = LF
                                         THEN i + 2 ELSE i + 1)
         ELSE <<stored[i]>> \o ReadText(stored, i + 1)

\* The line separators of the platforms the script runs on.
LineSeps == { <<LF>>, <<CR, LF>> }

\* No cache file.
NoFile == <<"absent">>

\* The state of get_ocr_text's surroundings: the PDF, the machine, the cache
\* file, and what its calls did so far.
OcrRun(total_pages, num_cores, cr_page, raising, linesep) ==
    [script |-> "ingest.py", total_pages |-> total_pages,
     num_cores |-> num_cores, cr_page |-> cr_page, raising |-> raising,
     linesep |-> linesep, cache |-> NoFile, page_chunks |-> <<>>,
     pending |-> {}, all_text_chunks |-> <<>>, ocr_runs |-> 0,
     cache_writes |-> 0, returned |-> <<>>, from_ocr |-> {}]

InitOcr ==
    /\ pc = "ocr_call"
    /\ api_key = TRUE
    /\ index = {}
    /\ assistant = NoAssistant
    /\ turns = 0
    /\ question = <<>>
    /\ search_queries = <<>>
    /\ seen_content = {}
    /\ retrieved_docs = <<>>
    /\ context = <<>>
    /\ answer = NoAnswer
    /\ additional_terms = <<>>
    /\ new_docs = <<>>
    /\ result = NoResult
    /\ screen = NoScreen
    /\ batch_calls = 0
    /\ synth_calls = 0
    /\ synth_failed = FALSE
    /\ store_down = {}
    /\ store_up = {}
    /\ retriever_memo = <<>>
    /\ llm_memo = <<>>
    /\ asked = {}
    /\ documents_of = <<>>
    /\ search_k = 12
    /\ \E total_pages \in 1..MaxPages, num_cores \in 1..MaxCores,
          linesep \in LineSeps :
           \E cr_page \in 0..total_pages, raising \in 0..num_cores :
               ingest = OcrRun(total_pages, num_cores, cr_page, raising, linesep)

\* get_ocr_text up to its pool: with a cache file it returns what it reads
\* from it, without one it forms the page ranges and starts the workers.
GetOcrText ==
    /\ pc = "ocr_call"
    /\ Len(ingest.returned) < MaxOcrCalls
    /\ IF ingest.cache # NoFile
       THEN /\ ingest' = [ingest EXCEPT
                             !.returned = Append(@, ReadText(ingest.cache, 1))]
            /\ pc' = "ocr_call"
       ELSE \E chunks \in {PageChunks(ingest.total_pages, ingest.num_cores)} :
                /\ ingest' = [ingest EXCEPT
                                 !.page_chunks = chunks,
                                 !.pending = 1..Len(chunks),
                                 !.all_text_chunks = <<>>,
                                 !.ocr_runs = @ + 1]
                /\ pc' = "ocr_pool"
    /\ UNCHANGED <<search_k, api_key, index, assistant, turns, question, search_queries,
                   seen_content, retrieved_docs, context, answer,
                   additional_terms, new_docs, result, screen, batch_calls,
                   synth_calls, synth_failed, store_down, store_up,
                   retriever_memo, llm_memo, asked, documents_of>>

\* One round of the loop over pool.imap_unordered: the text list of a page
\* range whose worker is done, whichever that is, is appended.
OcrChunkDone ==
    /\ pc = "ocr_pool"
    /\ \E c \in ingest.pending :
           ingest' = [ingest EXCEPT
                         !.pending = @ \ {c},
                         !.all_text_chunks =
                             @ \o ProcessPageChunk(ingest.page_chunks[c],
                                                   ingest.total_pages,
                                                   ingest.cr_page,
                                                   c = ingest.raising)]
    /\ pc' = "ocr_pool"
    /\ UNCHANGED <<search_k, api_key, index, assistant, turns, question, search_queries,
                   seen_content, retrieved_docs, context, answer,
                   additional_terms, new_docs, result, screen, batch_calls,
                   synth_calls, synth_failed, store_down, store_up,
                   retriever_memo, llm_memo, asked, documents_of>>

\* The end of get_ocr_text after OCR: the texts are joined, written to the
\* cache file and returned.
OcrSave ==
    /\ pc = "ocr_pool"
    /\ ingest.pending = {}
    /\ \E full_text \in {JoinLines(ingest.all_text_chunks, 1)} :
           ingest' = [ingest EXCEPT
                         !.cache = WriteText(full_text, ingest.linesep, 1),
                         !.cache_writes = @ + 1,
                         !.from_ocr = @ \cup {Len(ingest.returned) + 1},
                         !.returned = Append(@, full_text)]
    /\ pc' = "ocr_call"
    /\ UNCHANGED <<search_k, api_key, index, assistant, turns, question, search_queries,
                   seen_content, retrieved_docs, context, answer,
                   additional_terms, new_docs, result, screen, batch_calls,
                   synth_calls, synth_failed, store_down, store_up,
                   retriever_memo, llm_memo, asked, documents_of>>

NextOcr ==
    \/ GetOcrText
    \/ OcrChunkDone
    \/ OcrSave

OcrSpec == InitOcr /\ [][NextOcr]_vars

\* ------------------------------------------------------------------ claims
\* ask_question has returned its result to the terminal loop.
AskReturned == pc = "render"

\* The terminal loop has rendered the turn's result.
TurnRendered == pc \in {"input", "ended"} /\ "none" \notin DOMAIN result

\* ask_question is running.
InTurn == pc \in {"ask", "ask_fallback", "ask_synth", "ask_refine", "ask_final"}

NoDuplicateSections(docs) ==
    \A i, j \in 1..Len(docs) : i # j => SectionOf(docs[i]) # SectionOf(docs[j])

\* The keyword groups of smart_search_code a question mentions.
GroupsMatched(q) ==
    Cardinality({g \in {BathroomWords, FenceWords, AnimalWords, BusinessWords} :
                    AnyIn(LowerText(q), g)})

\* The first answer of the turn contains "need additional sections".
FirstAnswerHasMarker ==
    /\ answer # NoAnswer
    /\ ContainsPhrase(LowerText(answer), <<"need", "additional", "sections">>)

\* C1: the 'documents' list ask_question returns holds no two entries with
\* the same section identifier.
C1_DocumentsHaveDistinctSections ==
    AskReturned => NoDuplicateSections(result.documents)

\* C2: when retrieval yields at least one section and the synthesis call
\* fails, the result is successful-with-sections: success true, an error, no
\* answer, and the retrieved sections as documents.
C2_SynthesisFailureKeepsSuccess ==
    (AskReturned /\ synth_failed /\ retrieved_docs # <<>>)
        => /\ result.success
           /\ result.error # NULL
           /\ result.answer = NoAnswer
           /\ result.documents = retrieved_docs

\* C3: when similarity retrieval and the structured fallback together yield
\* no section, ask_question returns success false, an error, no answer and an
\* empty documents list.
C3_NoSectionsIsFailure ==
    (AskReturned /\ retrieved_docs = <<>>)
        => /\ ~result.success
           /\ result.error # NULL
           /\ result.answer = NoAnswer
           /\ result.documents = <<>>
           /\ synth_calls = 0

C3_Witness ==
    /\ AskReturned
    /\ retrieved_docs = <<>>
    /\ question \in DOMAIN retriever_memo

\* C4: smart_search_code passes at least 1 and at most 6 search variants to
\* batch_search, however many of its four keyword groups the question
\* matches, so that k // len(search_queries) never divides by zero.
C4_VariantCountBounded ==
    pc = "searched"
        => /\ Len(search_queries) >= 1
           /\ Len(search_queries) <= MaxSearchQueries
           /\ store_down \cup store_up
                  = Calls(search_queries, Max(2, 12 \div Len(search_queries)))

C4_Witness ==
    /\ pc = "searched"
    /\ GroupsMatched(question) = 4
    /\ Len(search_queries) = MaxSearchQueries

C6_AtMostOneRefinement ==
    /\ [](synth_calls <= 2 /\ batch_calls <= 2)
    /\ [](synth_failed => ~InTurn)
    /\ [](InTurn => <>AskReturned)

C6_Witness ==
    /\ AskReturned
    /\ synth_calls = 2
    /\ batch_calls = 2
    /\ result.success
    /\ QuickNeedsCheck(result.answer)

\* C7: every context block handed to the synthesis step, in the first round
\* and in the refinement round, holds at most one entry per section
\* identifier, whatever duplicates the document list holds.
C7_ContextOneEntryPerSection ==
    \A i, j \in 1..Len(context) : i # j => context[i].section # context[j].section

C7_Witness ==
    /\ synth_calls = 2
    /\ ~NoDuplicateSections(Truncate(retrieved_docs \o new_docs, 8))
    /\ Len(context) >= 2

\* C8: the refinement round only adds documents: the first-round documents
\* stay in the result at their positions, and each appended document has a
\* section identifier different from every other document of the result.
C8_RefinementOnlyAdds ==
    (AskReturned /\ batch_calls = 2)
        => LET docs == result.documents
               n == Len(retrieved_docs)
           IN  /\ Len(docs) >= n
               /\ SubSeq(docs, 1, n) = retrieved_docs
               /\ \A i \in (n + 1)..Len(docs) : \A j \in 1..Len(docs) :
                      j # i => SectionOf(docs[j]) # SectionOf(docs[i])

C8_Witness ==
    /\ AskReturned
    /\ batch_calls = 2
    /\ Len(result.documents) > Len(retrieved_docs)

\* C9: a turn that repeats a question against the unchanged index and the
\* deterministic model returns the same 'documents' list, in the same order,
\* as the first turn with that question.
C9_RepeatedQuestionSameDocuments ==
    (AskReturned /\ question \in DOMAIN documents_of)
        => result.documents = documents_of[question]

C9_Witness ==
    /\ AskReturned
    /\ question \in DOMAIN documents_of
    /\ Len(result.documents) >= 2

\* C10: in the terminal interface, whenever a turn retrieved at least one
\* section, those sections are displayed, also when synthesis failed.
C10_SectionsShownWheneverRetrieved ==
    (TurnRendered /\ retrieved_docs # <<>>)
        => /\ screen.sections # <<>>
           /\ screen.sections = result.documents

\* The variants of the search whose similarity_search returned.
Answered(queries, k) ==
    {i \in 1..Len(queries) : Call(queries[i], k) \notin store_down}

\* The fingerprints of what the index returns for the answered variants.
AnsweredHeads(queries, k) ==
    UNION {Heads(SimilaritySearch(index, queries[i], k)) : i \in Answered(queries, k)}

\* C11: in batch_search a variant whose similarity search fails is passed
\* over: the search still returns, and what it collected is exactly what the
\* index returned for the variants that did not fail, those before and those
\* after the failed one.
C11_FailedVariantSwallowed ==
    pc = "searched"
        => LET k == KPerQuery(12, search_queries)
           IN  /\ seen_content = AnsweredHeads(search_queries, k)
               /\ Heads(retrieved_docs) = AnsweredHeads(search_queries, k)

C11_Witness ==
    /\ pc = "searched"
    /\ retrieved_docs # <<>>
    /\ \E i \in 2..(Len(search_queries) - 1) :
           /\ Call(search_queries[i], KPerQuery(12, search_queries)) \in store_down
           /\ Heads(SimilaritySearch(index, search_queries[i + 1],
                                     KPerQuery(12, search_queries))) # {}

\* C12: when a synthesis call of the turn fails, in the first round or in the
\* refinement round, ask_question returns a result (nothing is raised to the
\* terminal loop) that carries an error and, as its documents, exactly the
\* non-empty list retrieved before the first synthesis, in the same order.
C12_SynthesisFailureKeepsSections ==
    synth_failed
        => /\ "none" \notin DOMAIN result
           /\ result.error # NULL
           /\ retrieved_docs # <<>>
           /\ result.documents = retrieved_docs

C12_Witness ==
    /\ AskReturned
    /\ synth_failed
    /\ synth_calls = 2
    /\ new_docs # <<>>

\* A question that shares no word with any document of the index and
\* mentions none of the topics the assistant knows.
NoOverlap(q) ==
    /\ \A d \in index : Similarity(q, d) = 0
    /\ GroupsMatched(q) = 0
    /\ TopicTerms(LowerText(q)) = <<>>

\* C13: a question with no lexical or topical overlap with any section of a
\* non-empty index gets an unsuccessful result with zero documents.
C13_NoOverlapIsFailure ==
    (AskReturned /\ index # {} /\ NoOverlap(question))
        => /\ ~result.success
           /\ result.documents = <<>>

\* The question of the fence scenario.
FenceQuestion == <<"how", "tall", "can", "my", "fence", "be">>

\* C14: for the question "how tall can my fence be" against an index that
\* holds a section 20.16.030 whose body contains "fence height shall not
\* exceed six feet", with no search failing, the section is among the
\* documents ask_question returns, and a synthesized answer cites 20.16.030.
C14_FenceSectionSurfaced ==
    (AskReturned /\ question = FenceQuestion /\ DocF1 \in index
                 /\ store_down = {})
        => /\ DocF1 \in Range(result.documents)
           /\ result.answer # NoAnswer => "20.16.030" \in Words(result.answer)

\* C14, the retrieval half alone: the section is among the documents.
C14_FenceSectionRetrieved ==
    (AskReturned /\ question = FenceQuestion /\ DocF1 \in index
                 /\ store_down = {})
        => DocF1 \in Range(result.documents)

\* An exception of the turn was reported by the terminal loop.
ErrorReported == screen.status = "An error occurred"

\* C15: the loop of TUIInterface.run ends only from the prompt, on the line
\* "exit" or "quit" or on an interrupt; an exception raised while reading,
\* querying or rendering is reported and leaves the loop at the prompt, never
\* ended by it.
C15_LoopEndsOnlyOnExitOrInterrupt ==
    /\ [][pc' = "ended" => (pc = "input" /\ (GetInput \/ Interrupt))]_vars
    /\ [][(ErrorReported' /\ ~ErrorReported) => pc' = "input"]_vars

C15_Witness ==
    /\ pc = "input"
    /\ ErrorReported
    /\ turns = 1
    /\ "none" \notin DOMAIN result
    /\ result.success

\* run reported that the assistant could not be initialized.
InitFailureReported == screen.status = "Failed to initialize system"

\* C16: without the credentials initialize raises and run reports the
\* failure once and returns: the only step of the session is the one that
\* reports it, no question is read and ask_question is never called.
C16_MissingKeyHalts ==
    /\ [](~api_key => /\ pc \in {"boot", "halted"}
                      /\ turns = 0
                      /\ asked = {}
                      /\ batch_calls = 0
                      /\ "none" \in DOMAIN result
                      /\ assistant = NoAssistant
                      /\ InitFailureReported <=> pc = "halted")
    /\ [][~api_key => /\ pc = "boot"
                      /\ pc' = "halted"
                      /\ ~InitFailureReported
                      /\ InitFailureReported']_vars

C16_Witness ==
    /\ ~api_key
    /\ pc = "halted"
    /\ InitFailureReported

\* The ingestion script has ended, by returning or by an exception.
IngestEnded == pc \in {"ingest_done", "ingest_raised"}

\* C17: in both ingestion scripts a batch whose add_documents fails neither
\* keeps another batch from being attempted nor removes a batch loaded
\* before: when the script ends every batch was attempted and every batch
\* that did not fail is in the index.
C17_BatchesIndependent ==
    (IngestEnded /\ api_key)
        => /\ ingest.attempted = 1..ingest.batches
           /\ ingest.loaded = (1..ingest.batches) \ ingest.failing

\* C17 for load_ocr_to_db.py alone, with the counts it reports.
C17_LoadOcrBatchesIndependent ==
    (IngestEnded /\ api_key /\ ingest.script = "load_ocr_to_db.py")
        => /\ ingest.attempted = 1..ingest.batches
           /\ ingest.loaded = (1..ingest.batches) \ ingest.failing
           /\ ingest.failed = Cardinality(ingest.failing)
           /\ ingest.successful = ingest.batches - Cardinality(ingest.failing)

\* C17, the half on rollback: a batch that was loaded stays loaded.
C17_NoRollback ==
    [][(pc \in {"ingest_boot", "ingest_batches"})
          => (ingest.loaded \subseteq ingest.loaded')]_vars

\* The sections that have an entry in a context block.
ContextSections(entries) == {entries[i].section : i \in 1..Len(entries)}

\* The second synthesis call of the turn was made.
SecondSynthesisMade == pc = "render" /\ synth_calls = 2

\* C18: the context passed to the second synthesis call has an entry for
\* every section the refinement round added, whatever the size of the
\* first-round result set.
C18_RefinementContextEnlarged ==
    SecondSynthesisMade => Sections(new_docs) \subseteq ContextSections(context)

\* C18 where the first-round documents and the added ones are at most 8
\* together: the added sections are in the context.
C18_EnlargedWithinEight ==
    (SecondSynthesisMade /\ Len(retrieved_docs) + Len(new_docs) <= 8)
        => Sections(new_docs) \subseteq ContextSections(context)

\* C19: the structured retriever is invoked in a turn exactly when the scored
\* search left fewer than 5 documents and the retriever was built at start-up,
\* it is invoked nowhere else, and the fallback step leaves at most 12
\* documents.
FallbackInvoked == pc = "ask_synth" /\ question \in DOMAIN retriever_memo

C19_FallbackIffFewAndBuilt ==
    /\ [][(pc = "ask" /\ assistant.vectorstore # NULL) =>
            ((pc' = "ask_fallback") <=>
                (Len(retrieved_docs') < 5 /\ assistant.retriever # NULL))]_vars
    /\ [][(retriever_memo' # retriever_memo) => (pc = "ask_fallback")]_vars
    /\ [][(pc = "ask_fallback") =>
            (pc' = "ask_synth" /\ Len(retrieved_docs') <= 12)]_vars

C19_Witness == FallbackInvoked /\ Len(retrieved_docs) = 12

\* C20: every document the structured fallback appends has a section
\* identifier different from that of every document in the list at the moment
\* it is appended, the documents the same call appended before it included.
C20_FallbackAppendsNewSectionsOnly ==
    [][(pc = "ask_fallback") =>
        (\A i \in (Len(retrieved_docs) + 1)..Len(retrieved_docs') :
            \A j \in 1..(i - 1) :
                SectionOf(retrieved_docs'[j]) # SectionOf(retrieved_docs'[i]))]_vars

\* The part of C20 that holds: an appended document's section is not one of
\* the sections the list had when the fallback began.
C20_AppendedNotInFirstRound ==
    [][(pc = "ask_fallback") =>
        (\A i \in (Len(retrieved_docs) + 1)..Len(retrieved_docs') :
            SectionOf(retrieved_docs'[i]) \notin Sections(retrieved_docs))]_vars

\* C21: when the structured retriever raises, the fallback step changes
\* neither the documents the similarity search found nor what is shown, the
\* turn goes on to synthesis, and with no document at all it returns the
\* result of a turn that found none.
FallbackRaised == question \in DOMAIN retriever_memo /\ ~retriever_memo[question].ok

C21_FallbackFailureSkipped ==
    /\ [][(pc = "ask_fallback" /\ ~retriever_memo'[question].ok) =>
            (/\ retrieved_docs' = retrieved_docs
             /\ pc' = "ask_synth"
             /\ screen' = screen
             /\ result' = result)]_vars
    /\ [][(pc = "ask_synth" /\ FallbackRaised) =>
            IF retrieved_docs = <<>>
            THEN result' = NoDocumentsResult /\ pc' = "render"
            ELSE synth_calls' = synth_calls + 1]_vars

C21_Witness ==
    /\ pc = "render"
    /\ FallbackRaised
    /\ assistant.use_self_query
    /\ result = NoDocumentsResult

\* A turn whose fallback raised and whose similarity search had found
\* documents reaches its synthesis.
C21_WitnessSynthesis ==
    /\ pc = "render"
    /\ FallbackRaised
    /\ assistant.use_self_query
    /\ Len(retrieved_docs) \in 1..4
    /\ synth_calls >= 1

\* C22: smart_search_code returns at most k documents, in order of
\* non-increasing relevance score, and documents of equal score stand in the
\* order in which batch_search retrieved them.
Searched == pc = "searched"

\* What batch_search returned to the smart_search_code call that ended.
AllDocs ==
    BatchSearch(index, search_queries, KPerQuery(search_k, search_queries),
                store_down).all_docs

PositionIn(docs, d) == CHOOSE p \in 1..Len(docs) : docs[p] = d

C22_RankedStableAtMostK ==
    Searched =>
        \E all \in {AllDocs} :
            /\ Len(retrieved_docs) <= search_k
            /\ Range(retrieved_docs) \subseteq Range(all)
            /\ \A i, j \in 1..Len(retrieved_docs) :
                  i < j =>
                    \E si \in {RelevanceScore(question, retrieved_docs[i])},
                       sj \in {RelevanceScore(question, retrieved_docs[j])} :
                        /\ si >= sj
                        /\ si = sj => PositionIn(all, retrieved_docs[i])
                                          < PositionIn(all, retrieved_docs[j])

C22_Witness ==
    /\ Searched
    /\ Len(AllDocs) > search_k
    /\ Len(retrieved_docs) = search_k
    /\ \E i \in 1..(Len(retrieved_docs) - 1) :
          RelevanceScore(question, retrieved_docs[i])
              = RelevanceScore(question, retrieved_docs[i + 1])
    /\ \E i \in 1..(Len(retrieved_docs) - 1) :
          RelevanceScore(question, retrieved_docs[i])
              > RelevanceScore(question, retrieved_docs[i + 1])

\* C23: the list batch_search returns holds no two documents of the same
\* content fingerprint; each fingerprint some variant retrieved is in it, once,
\* by the document that came first, and the documents stand in the order of
\* those first occurrences.
RECURSIVE RetrievedInOrder(_, _, _, _, _)
RetrievedInOrder(store, queries, k, down, i) ==
    IF i > Len(queries) THEN <<>>
    ELSE (IF Call(queries[i], k) \in down THEN <<>>
          ELSE SimilaritySearch(store, queries[i], k))
         \o RetrievedInOrder(store, queries, k, down, i + 1)

\* Everything the variants of the smart_search_code call that ended retrieved.
Retrieved ==
    RetrievedInOrder(index, search_queries, KPerQuery(search_k, search_queries),
                     store_down, 1)

FirstOccurrence(docs, h) ==
    CHOOSE r \in 1..Len(docs) :
        /\ ContentHash(docs[r]) = h
        /\ \A e \in 1..(r - 1) : ContentHash(docs[e]) # h

C23_BatchSearchDeduplicates ==
    Searched =>
        \E all \in {AllDocs}, got \in {Retrieved} :
            /\ \A i, j \in 1..Len(all) :
                  i # j => ContentHash(all[i]) # ContentHash(all[j])
            /\ Heads(all) = Heads(got)
            /\ seen_content = Heads(got)
            /\ \A i \in 1..Len(all) :
                  all[i] = got[FirstOccurrence(got, ContentHash(all[i]))]
            /\ \A i, j \in 1..Len(all) :
                  i < j => FirstOccurrence(got, ContentHash(all[i]))
                              < FirstOccurrence(got, ContentHash(all[j]))

C23_Witness ==
    /\ Searched
    /\ Len(AllDocs) >= 2
    /\ Len(Retrieved) > Len(AllDocs)
    /\ \E i, j \in 1..Len(Retrieved) :
          /\ Retrieved[i] # Retrieved[j]
          /\ ContentHash(Retrieved[i]) = ContentHash(Retrieved[j])

\* C24: ask_question leaves the assistant's vectorstore, llm, retriever,
\* summary_chain and use_self_query as they were, a question is read only at
\* the prompt, and the loop comes back to the prompt in a turn only from a
\* returned result that it has rendered.
C24_TurnResolvedBeforeNextRead ==
    /\ [][InTurn => (assistant' = assistant)]_vars
    /\ [][(turns' # turns \/ question' # question) => (pc = "input")]_vars
    /\ [][(pc # "input" /\ pc' = "input" /\ turns > 0) =>
            (/\ pc = "render"
             /\ "none" \notin DOMAIN result
             /\ screen' = Rendered(result))]_vars

\* C24 as it holds: the loop comes back to the prompt in a turn only from a
\* returned result that it has rendered or whose rendering raised and was
\* reported.
C24_TurnResolvedOrReported ==
    /\ [][InTurn => (assistant' = assistant)]_vars
    /\ [][(turns' # turns \/ question' # question) => (pc = "input")]_vars
    /\ [][(pc # "input" /\ pc' = "input" /\ turns > 0) =>
            (/\ pc = "render"
             /\ "none" \notin DOMAIN result
             /\ (screen' = Rendered(result) \/ ErrorReported'))]_vars

C24_Witness ==
    /\ pc = "ask"
    /\ turns = 2
    /\ question \in DOMAIN documents_of
    /\ assistant.vectorstore # NULL

\* C25: in load_ocr_to_db.py, in whatever order the threads of the pool take
\* up and finish the batches, each submitted batch yields exactly one result,
\* marked either as added or as failed, and the successful and failed counts
\* reported add up to the number of batches.
LoadOcrEnded == pc = "ingest_done" /\ api_key /\ ingest.script = "load_ocr_to_db.py"

C25_EveryBatchCountedOnce ==
    /\ \A i \in 1..ingest.batches :
          Cardinality({p \in 1..Len(ingest.results) :
                          ingest.results[p].batch = i}) <= 1
    /\ LoadOcrEnded =>
          /\ \A i \in 1..ingest.batches :
                \E p \in 1..Len(ingest.results) :
                    /\ ingest.results[p].batch = i
                    /\ ingest.results[p].mark \in {"added", "failed"}
                    /\ ingest.results[p].mark = "failed" <=> i \in ingest.failing
          /\ ingest.successful + ingest.failed = ingest.batches

C25_Witness ==
    /\ LoadOcrEnded
    /\ ingest.successful >= 1
    /\ ingest.failed >= 1
    /\ ingest.results[1].batch > ingest.results[2].batch

\* The pages of a (start, end) page range.
PagesOf(page_chunk) == page_chunk[1]..page_chunk[2]

\* get_ocr_text has formed its page ranges and handed them to the pool.
RangesHandedOut == pc = "ocr_pool"

\* C27: the page ranges get_ocr_text hands to the OCR workers each have
\* start <= end, are pairwise disjoint, and together cover exactly the pages
\* 1..total_pages.
C27_PageRangesPartition ==
    RangesHandedOut =>
        \E chunks \in {ingest.page_chunks} :
            /\ \A i \in 1..Len(chunks) : chunks[i][1] <= chunks[i][2]
            /\ \A i, j \in 1..Len(chunks) :
                  i # j => PagesOf(chunks[i]) \cap PagesOf(chunks[j]) = {}
            /\ UNION {PagesOf(chunks[i]) : i \in 1..Len(chunks)}
                  = 1..ingest.total_pages

\* The part of C27 that holds: the pages of the ranges, a range with
\* start > end having none, are pairwise disjoint and cover 1..total_pages.
C27_PagesCoveredOnce ==
    RangesHandedOut =>
        \E chunks \in {ingest.page_chunks} :
            /\ Len(chunks) = ingest.num_cores
            /\ \A i, j \in 1..Len(chunks) :
                  i # j => PagesOf(chunks[i]) \cap PagesOf(chunks[j]) = {}
            /\ UNION {PagesOf(chunks[i]) : i \in 1..Len(chunks)}
                  = 1..ingest.total_pages

\* The pages whose text the workers of a run return.
PagesRead(run) ==
    UNION {IF c = run.raising THEN {}
           ELSE run.page_chunks[c][1]..run.page_chunks[c][2] :
              c \in 1..Len(run.page_chunks)}

\* A call of get_ocr_text has run OCR, written the cache and returned.
CacheWritten == ingest.from_ocr # {}

\* C26: get_ocr_text runs OCR only when there is no cache file, and once a
\* call has written the cache every later call returns exactly the text that
\* call returned, without running OCR or writing the cache again.
C26_CacheReturnsSameText ==
    /\ [][(pc \in {"ocr_call", "ocr_pool"}) =>
            (/\ ingest.ocr_runs' # ingest.ocr_runs => ingest.cache = NoFile
             /\ ingest.cache' # ingest.cache => ingest.cache = NoFile)]_vars
    /\ []((pc \in {"ocr_call", "ocr_pool"}) =>
            \A w \in ingest.from_ocr :
                \A j \in (w + 1)..Len(ingest.returned) :
                    /\ j \notin ingest.from_ocr
                    /\ ingest.returned[j] = ingest.returned[w])

\* The part of C26 that holds: OCR runs and the cache is written at most
\* once, both only while there is no cache file, every call after the first
\* returns what the call before it returned, and all return the same text
\* when the OCR text has no carriage return.
C26_OcrOnceAndStableAfterFirstRead ==
    /\ [][(pc \in {"ocr_call", "ocr_pool"}) =>
            (/\ ingest.ocr_runs' # ingest.ocr_runs => ingest.cache = NoFile
             /\ ingest.cache' # ingest.cache => ingest.cache = NoFile)]_vars
    /\ []((pc \in {"ocr_call", "ocr_pool"}) =>
            /\ ingest.ocr_runs <= 1
            /\ ingest.cache_writes <= 1
            /\ \A j \in 3..Len(ingest.returned) :
                  ingest.returned[j] = ingest.returned[j - 1]
            /\ ingest.cr_page \in PagesRead(ingest) \/
                  \A j \in 2..Len(ingest.returned) :
                      ingest.returned[j] = ingest.returned[1])

\* The element texts of the page ranges, in ascending page order.
RECURSIVE TextsInPageOrder(_, _)
TextsInPageOrder(run, c) ==
    IF c > Len(run.page_chunks) THEN <<>>
    ELSE ProcessPageChunk(run.page_chunks[c], run.total_pages, run.cr_page,
                          c = run.raising)
         \o TextsInPageOrder(run, c + 1)

\* C30: the text get_ocr_text returns after OCR is the outputs of the page
\* ranges joined in ascending page order, in whatever order the workers
\* finished.
C30_TextInPageOrder ==
    (pc = "ocr_call") =>
        \A w \in ingest.from_ocr :
            ingest.returned[w] = JoinLines(TextsInPageOrder(ingest, 1), 1)

\* The part of C30 that holds: the returned text is made of the element
\* texts of the page ranges, each once, in some order.
C30_SameTextsInSomeOrder ==
    (pc = "ocr_pool" /\ ingest.pending = {}) =>
        \E got \in {ingest.all_text_chunks}, want \in {TextsInPageOrder(ingest, 1)} :
            /\ Len(got) = Len(want)
            /\ Range(got) = Range(want)

\* C28: every result ask_question returns is well-formed: with success it
\* has an answer, no error and at least one document; without success it has
\* no answer and an error; its iterations is 0 exactly when no document was
\* retrieved, and 2 exactly when the refinement round added documents and the
\* second synthesis succeeded.
C28_ResultWellFormed ==
    AskReturned =>
        /\ result.success =>
              /\ result.answer # NoAnswer
              /\ result.error = NULL
              /\ result.documents # <<>>
        /\ ~result.success =>
              /\ result.answer = NoAnswer
              /\ result.error # NULL
        /\ result.iterations \in {0, 1, 2}
        /\ result.iterations = 0 <=> retrieved_docs = <<>>
        /\ result.iterations = 2 <=>
              (new_docs # <<>> /\ synth_calls = 2 /\ ~synth_failed)

C28_Witness ==
    /\ AskReturned
    /\ result.success
    /\ result.iterations = 2
    /\ new_docs # <<>>

\* Turns that end with each of the other results are reached as well.
C28_WitnessNoted ==
    AskReturned /\ result.success /\ result.iterations = 1 /\ synth_calls = 1
        /\ batch_calls = 2

C28_WitnessFailed == AskReturned /\ ~result.success /\ result.iterations = 1

\* C29: when the first synthesis succeeded and the second synthesis call of
\* the refinement round fails, ask_question returns a failure with no answer,
\* iterations 1 and the first-round documents only, none of those the
\* refinement added; the first answer is not returned.
SecondSynthesisFailed == AskReturned /\ synth_calls = 2 /\ synth_failed

C29_SecondFailureDiscardsFirstAnswer ==
    SecondSynthesisFailed =>
        /\ answer # NoAnswer
        /\ new_docs # <<>>
        /\ ~result.success
        /\ result.answer = NoAnswer
        /\ result.error # NULL
        /\ result.iterations = 1
        /\ result.documents = retrieved_docs
        /\ Range(result.documents) \cap Range(new_docs) = {}

C29_Witness ==
    /\ SecondSynthesisFailed
    /\ QuickNeedsCheck(answer)
    /\ Len(result.documents) < Len(retrieved_docs \o new_docs)

====
